---- MODULE Spec2Model ----
(***************************************************************************)
(* Model of src/main.py: the /ws session handler websocket_endpoint and    *)
(* the utterance pipeline process_llm_and_tts of the voice-assistant relay.*)
(*                                                                         *)
(* One session (one connection) is modelled.  The handler is a single      *)
(* coroutine; pc is the statement it is suspended at (an await on the      *)
(* socket) or blocked in (a gateway call).  The client and the three       *)
(* external gateways are the environment: the client picks the inbound     *)
(* frames and may disconnect at any moment, a gateway picks what its call  *)
(* returns or that it raises.                                              *)
(*                                                                         *)
(* Bytes are integers 0..255, byte strings are sequences of bytes.         *)
(* Texts are sequences of one-character strings.  Base64 text is a         *)
(* sequence of alphabet indices 0..63, with 64 for the pad character '='   *)
(* and 65 for a character outside the alphabet.                            *)
(***************************************************************************)
EXTENDS Integers, Sequences, FiniteSets, TLC

(***************************************************************************)
(* Bounds of the model.                                                    *)
(***************************************************************************)
\* flushes (pipeline runs) per session
MaxUtterances == 3
\* audio_chunk frames handled between two flushes
MaxChunks == 2
\* frames that have arrived from the client and wait to be received
MaxQueued == 1

(***************************************************************************)
(* Pure functions.                                                         *)
(***************************************************************************)
RECURSIVE B64Encode(_)
\* base64.b64encode: three bytes become four alphabet indices; a tail of one
\* or two bytes is padded with '=' (64).
B64Encode(b) ==
    IF Len(b) = 0 THEN <<>>
    ELSE IF Len(b) = 1 THEN
        << b[1] \div 4, (b[1] % 4) * 16, 64, 64 >>
    ELSE IF Len(b) = 2 THEN
        << b[1] \div 4, (b[1] % 4) * 16 + (b[2] \div 16), (b[2] % 16) * 4, 64 >>
    ELSE
        << b[1] \div 4, (b[1] % 4) * 16 + (b[2] \div 16),
           (b[2] % 16) * 4 + (b[3] \div 64), b[3] % 64 >>
        \o B64Encode(SubSeq(b, 4, Len(b)))

RECURSIVE A2B(_, _, _, _, _, _)
\* binascii.a2b_base64 in its default (non-strict) mode, as base64.b64decode
\* calls it: characters outside the alphabet are skipped, a pad sequence that
\* completes a quad ends the decoding, leftover data characters are an error.
A2B(s, i, quad_pos, leftchar, pads, out) ==
    IF i > Len(s) THEN
        IF quad_pos # 0 THEN [ok |-> FALSE, bytes |-> <<>>]
        ELSE [ok |-> TRUE, bytes |-> out]
    ELSE IF s[i] = 64 THEN
        IF quad_pos >= 2 THEN
            IF quad_pos + pads + 1 >= 4 THEN [ok |-> TRUE, bytes |-> out]
            ELSE A2B(s, i + 1, quad_pos, leftchar, pads + 1, out)
        ELSE A2B(s, i + 1, quad_pos, leftchar, pads, out)
    ELSE IF s[i] > 64 THEN A2B(s, i + 1, quad_pos, leftchar, pads, out)
    ELSE IF quad_pos = 0 THEN A2B(s, i + 1, 1, s[i], 0, out)
    ELSE IF quad_pos = 1 THEN
        A2B(s, i + 1, 2, s[i] % 16, 0, Append(out, leftchar * 4 + (s[i] \div 16)))
    ELSE IF quad_pos = 2 THEN
        A2B(s, i + 1, 3, s[i] % 4, 0, Append(out, leftchar * 16 + (s[i] \div 4)))
    ELSE
        A2B(s, i + 1, 0, 0, 0, Append(out, leftchar * 64 + s[i]))

\* base64.b64decode(message["data"]): the bytes, or ok = FALSE when it raises.
B64Decode(s) ==
    A2B(s, 1, 0, 0, 0, <<>>)

\* the characters str.strip() removes
Whitespace ==
    {" ", "\t", "\n"}

RECURSIVE LStrip(_)
LStrip(s) ==
    IF s = <<>> THEN s
    ELSE IF s[1] \in Whitespace THEN LStrip(Tail(s))
    ELSE s

RECURSIVE RStrip(_)
RStrip(s) ==
    IF s = <<>> THEN s
    ELSE IF s[Len(s)] \in Whitespace THEN RStrip(SubSeq(s, 1, Len(s) - 1))
    ELSE s

\* variant of Strip: nothing is trimmed
StripNothing(s) ==
    s

\* user_text.strip()
Strip(s) ==
    RStrip(LStrip(s))

\* variant of Extend: the chunk takes the place of the buffer
ExtendReplace(buf, chunk) ==
    chunk

\* variant of Extend: the chunk is put in front of the buffer
ExtendPrepend(buf, chunk) ==
    chunk \o buf

\* audio_buffer.extend(chunk)
Extend(buf, chunk) ==
    buf \o chunk

\* variant of BufferNonEmpty: the test lets an empty buffer through
BufferNonEmptyOrEmpty(buf) ==
    Len(buf) >= 0

\* len(audio_buffer) > 0
BufferNonEmpty(buf) ==
    Len(buf) > 0

\* variant of ResetBuffer: the buffer is left as it is
ResetBufferKeep(buf) ==
    buf

\* audio_buffer = bytearray()
ResetBuffer(buf) ==
    <<>>

(***************************************************************************)
(* Inputs the environment draws from.                                      *)
(***************************************************************************)
\* decoded audio payloads the client sends: empty, b"AA", b"BB"
Payloads ==
    { <<>>, <<65, 65>>, <<66, 66>> }

\* "Q": one data character, which b64decode rejects
BadB64 ==
    << 16 >>

DataTexts ==
    { B64Encode(p) : p \in Payloads } \cup { BadB64 }

Frame(j, ht, t, hd, d) ==
    [json |-> j, hasType |-> ht, type |-> t, hasData |-> hd, data |-> d]

\* the text frames receive_text() can return
Frames ==
    { Frame(TRUE, TRUE, "audio_chunk", TRUE, d) : d \in DataTexts }
    \cup { Frame(TRUE, TRUE, "audio_chunk", FALSE, <<>>),
           Frame(TRUE, TRUE, "stop_recording", FALSE, <<>>),
           Frame(TRUE, TRUE, "ping", FALSE, <<>>),
           Frame(TRUE, FALSE, "", FALSE, <<>>),
           Frame(FALSE, FALSE, "", FALSE, <<>>) }

\* the bytes the client encoded into the data field of frame f
SentPayload(f) ==
    CHOOSE p \in Payloads : B64Encode(p) = f.data

\* json.loads and the message["type"] / message["data"] lookups succeed and
\* the payload of an audio_chunk decodes
WellFormed(f) ==
    /\ f.json
    /\ f.hasType
    /\ f.type = "audio_chunk" => (f.hasData /\ B64Decode(f.data).ok)

\* what speech_to_text.convert returns: an object with .text, or something
\* whose str() is taken
Transcriptions ==
    { [hasText |-> TRUE, text |-> << " ", "h", "i" >>],
      [hasText |-> TRUE, text |-> << >>],
      [hasText |-> TRUE, text |-> << " ", "\n" >>],
      [hasText |-> FALSE, text |-> << "o", "b", "j" >>] }

\* lines 79-85: user_text from the gateway's result
UserTextOf(transcription) ==
    transcription.text

\* chat_completion.choices[0].message.content: a text, or None
Completions ==
    { [isText |-> TRUE, text |-> << "o", "k" >>],
      [isText |-> FALSE, text |-> << >>] }

\* what text_to_speech.convert returns: an iterable of byte fragments, or a
\* single bytes object (modelled as a stream flagged single)
AudioStreams ==
    { [iter |-> TRUE, frags |-> << <<1>>, <<>>, <<2, 3>> >>],
      [iter |-> TRUE, frags |-> << <<>>, <<>> >>],
      [iter |-> TRUE, frags |-> << >>],
      [iter |-> FALSE, frags |-> << <<9, 8, 7>> >>] }

RECURSIVE AccumulateReversed(_, _)
\* variant of Accumulate: each fragment is put in front of what was gathered
AccumulateReversed(full, frags) ==
    IF frags = <<>> THEN full
    ELSE IF Head(frags) # <<>>
    THEN AccumulateReversed(Head(frags) \o full, Tail(frags))
    ELSE AccumulateReversed(full, Tail(frags))

RECURSIVE Accumulate(_, _)
\* lines 162-164: for chunk in audio_stream: if chunk: full_audio += chunk
Accumulate(full, frags) ==
    IF frags = <<>> THEN full
    ELSE IF Head(frags) # <<>> THEN Accumulate(full \o Head(frags), Tail(frags))
    ELSE Accumulate(full, Tail(frags))

\* lines 160-167
FullAudioOf(audio_stream) ==
    IF audio_stream.iter THEN Accumulate(<<>>, audio_stream.frags)
    ELSE audio_stream.frags[1]

(***************************************************************************)
(* State.                                                                  *)
(***************************************************************************)
VARIABLES
    pc,                     \* the statement the handler is at
    conn,                   \* "open" or "closed": the client side of the socket
    queued,                 \* number of frames that arrived and wait for
                            \* receive_text(); what each holds is drawn when
                            \* it is received
    audio_buffer,           \* websocket_endpoint's audio_buffer
    user_text,              \* websocket_endpoint's user_text
    ai_text,                \* process_llm_and_tts's ai_text
    full_audio,             \* process_llm_and_tts's full_audio
    ENABLE_ELEVENLABS_TTS,  \* the switch of line 142, fixed for a session
    exit,                   \* how the handler ended: "", "disconnect", "error"
    utt,                    \* history: number of flushes started
    handled,                \* history: the payloads of the audio_chunk frames
                            \* handled since the last flush
    failed,                 \* history: a gateway call of the session has failed
    log,                    \* history: the events of the flush in progress or
                            \* last finished (gateway calls, their results,
                            \* messages sent), until the next audio_chunk
    step                    \* history: the handler's last step: the kind of frame
                            \* received, or the name of the action

vars ==
    << pc, conn, queued, audio_buffer, user_text, ai_text, full_audio,
       ENABLE_ELEVENLABS_TTS, exit, utt, handled, failed, log, step >>

\* entries of log
Call(gw, arg) ==
    [k |-> "call", utt |-> utt, name |-> gw, val |-> arg]

Ret(gw, res) ==
    [k |-> "ret", utt |-> utt, name |-> gw, val |-> res]

Raised(gw) ==
    [k |-> "raise", utt |-> utt, name |-> gw, val |-> <<>>]

Out(type, body) ==
    [k |-> "out", utt |-> utt, name |-> type, val |-> body]

Status(text) ==
    Out("status", text)

\* The state after websocket.accept() and line 38.  Line 142 sets the switch
\* to False; True is its other setting ("Set to True to use ElevenLabs"), and
\* both are explored.
Init ==
    /\ pc = "receive_text"
    /\ conn = "open"
    /\ queued = 0
    /\ audio_buffer = <<>>
    /\ user_text = <<>>
    /\ ai_text = <<>>
    /\ full_audio = <<>>
    /\ ENABLE_ELEVENLABS_TTS \in BOOLEAN
    /\ exit = ""
    /\ utt = 0
    /\ handled = <<>>
    /\ failed = FALSE
    /\ log = <<>>
    /\ step = "accept"

(***************************************************************************)
(* Helpers of the actions.                                                 *)
(***************************************************************************)
\* An exception leaves websocket_endpoint's try block (lines 39-109): a
\* WebSocketDisconnect is caught at line 108 and the handler returns, any
\* other exception propagates; either way the handler is over.  Which of the
\* two a failed send raises depends on the transport, so both are possible.
Escape ==
    /\ pc' = "done"
    /\ exit' \in {"disconnect", "error"}

\* variant of Send: a send on a closed connection is dropped without an
\* exception, and the handler goes on
SendDropsWhenClosed(msg, after, okPc, failPc) ==
    /\ log' = IF conn = "open" THEN Append(log, msg) \o after ELSE log \o after
    /\ pc' = okPc
    /\ exit' = exit

\* await websocket.send_json(msg): on an open connection the message is sent
\* and the handler goes on at okPc, having made the gateway call after (if
\* any) that follows the send without an await in between; on a closed
\* connection the send raises and control passes to the enclosing handler.
Send(msg, after, okPc, failPc) ==
    IF conn = "open"
    THEN /\ log' = (Append(log, msg) \o after)
         /\ pc' = okPc
         /\ exit' = exit
    ELSE /\ log' = log
         /\ IF failPc = "done" THEN Escape
            ELSE pc' = failPc /\ exit' = exit

(***************************************************************************)
(* The client.                                                             *)
(***************************************************************************)
\* the client closes the connection (or the transport drops it)
Disconnect ==
    /\ conn = "open"
    /\ pc # "done"
    /\ conn' = "closed"
    /\ UNCHANGED << pc, audio_buffer, user_text, ai_text, full_audio, step,
                    ENABLE_ELEVENLABS_TTS, exit, utt, handled, log, failed, queued >>

\* a frame of the client arrives and waits for the handler's receive_text()
ClientSend ==
    /\ conn = "open"
    /\ pc # "done"
    /\ queued < MaxQueued
    /\ queued' = queued + 1
    /\ UNCHANGED << pc, conn, audio_buffer, user_text, ai_text, full_audio, step,
                    ENABLE_ELEVENLABS_TTS, exit, utt, handled, log, failed >>

(***************************************************************************)
(* websocket_endpoint, lines 40-52: one inbound frame.  Frames the client  *)
(* sent before it closed the connection are still delivered, in order,     *)
(* before receive_text() reports the disconnect.                           *)
(***************************************************************************)
\* no frame is left and the connection is closed: receive_text() raises
\* WebSocketDisconnect, caught at line 108
ReceiveDisconnect ==
    /\ pc = "receive_text"
    /\ conn = "closed"
    /\ queued = 0
    /\ pc' = "done"
    /\ exit' = "disconnect"
    /\ step' = "disconnect"
    /\ UNCHANGED << conn, audio_buffer, user_text, ai_text, full_audio,
                    ENABLE_ELEVENLABS_TTS, utt, handled, log, failed, queued >>

\* variant of ReceiveMalformed: the exception is caught inside the loop and
\* the frame is skipped
ReceiveMalformedIgnored ==
    /\ pc = "receive_text"
    /\ queued > 0
    /\ queued' = queued - 1
    /\ \E f \in Frames : ~WellFormed(f)
    /\ step' = "malformed"
    /\ UNCHANGED << pc, conn, audio_buffer, user_text, ai_text, full_audio,
                    ENABLE_ELEVENLABS_TTS, exit, utt, handled, log, failed >>

\* json.loads, message["type"], message["data"] or b64decode raises: the
\* exception is no WebSocketDisconnect and leaves the handler
ReceiveMalformed ==
    /\ pc = "receive_text"
    /\ queued > 0
    /\ queued' = queued - 1
    /\ \E f \in Frames : ~WellFormed(f)
    /\ pc' = "done"
    /\ exit' = "error"
    /\ step' = "malformed"
    /\ UNCHANGED << conn, audio_buffer, user_text, ai_text, full_audio,
                    ENABLE_ELEVENLABS_TTS, utt, handled, log, failed >>

\* variant of ReceiveAudioChunk: the frame is handled by a task of its own,
\* whatever the handler is waiting for
ReceiveAudioChunkConcurrent ==
    /\ pc # "done"
    /\ queued > 0
    /\ queued' = queued - 1
    /\ Len(handled) < MaxChunks
    /\ \E f \in Frames :
        /\ WellFormed(f)
        /\ f.type = "audio_chunk"
        /\ LET chunk == B64Decode(f.data).bytes
           IN audio_buffer' = Extend(audio_buffer, chunk)
        /\ handled' = Append(handled, SentPayload(f))
    /\ log' = IF pc = "receive_text" THEN <<>> ELSE log
    /\ step' = "audio_chunk"
    /\ UNCHANGED << pc, conn, user_text, ai_text, full_audio,
                    ENABLE_ELEVENLABS_TTS, exit, utt, failed >>

\* lines 44-47
ReceiveAudioChunk ==
    /\ pc = "receive_text"
    /\ queued > 0
    /\ queued' = queued - 1
    /\ Len(handled) < MaxChunks
    /\ \E f \in Frames :
        /\ WellFormed(f)
        /\ f.type = "audio_chunk"
        /\ LET chunk == B64Decode(f.data).bytes
           IN audio_buffer' = Extend(audio_buffer, chunk)
        /\ handled' = Append(handled, SentPayload(f))
    /\ log' = <<>>
    /\ step' = "audio_chunk"
    /\ UNCHANGED << pc, conn, user_text, ai_text, full_audio,
                    ENABLE_ELEVENLABS_TTS, exit, utt, failed >>

\* lines 50-52 with the test of line 52 false
ReceiveStopRecordingEmpty ==
    /\ pc = "receive_text"
    /\ queued > 0
    /\ queued' = queued - 1
    /\ \E f \in Frames : WellFormed(f) /\ f.type = "stop_recording"
    /\ ~BufferNonEmpty(audio_buffer)
    /\ step' = "stop_recording"
    /\ UNCHANGED << pc, conn, audio_buffer, user_text, ai_text, full_audio,
                    ENABLE_ELEVENLABS_TTS, exit, utt, handled, log, failed >>

\* lines 50-70: the buffer goes to speech_to_text.convert, which blocks
ReceiveStopRecording ==
    /\ pc = "receive_text"
    /\ queued > 0
    /\ queued' = queued - 1
    /\ utt < MaxUtterances
    /\ \E f \in Frames : WellFormed(f) /\ f.type = "stop_recording"
    /\ BufferNonEmpty(audio_buffer)
    /\ utt' = utt + 1
    /\ log' = Append(log, [k |-> "call", utt |-> utt + 1, name |-> "stt",
                           val |-> audio_buffer])
    /\ pc' = "stt_convert"
    /\ step' = "stop_recording"
    /\ UNCHANGED << conn, audio_buffer, user_text, ai_text, full_audio,
                    ENABLE_ELEVENLABS_TTS, exit, handled, failed >>

\* variant of ReceiveOther: an unknown type is refused with an exception
ReceiveOtherRaises ==
    /\ pc = "receive_text"
    /\ queued > 0
    /\ queued' = queued - 1
    /\ \E f \in Frames :
        /\ WellFormed(f)
        /\ f.type \notin {"audio_chunk", "stop_recording"}
    /\ pc' = "done"
    /\ exit' = "error"
    /\ step' = "other"
    /\ UNCHANGED << conn, audio_buffer, user_text, ai_text, full_audio,
                    ENABLE_ELEVENLABS_TTS, utt, handled, log, failed >>

\* a type that is neither audio_chunk nor stop_recording: no branch taken
ReceiveOther ==
    /\ pc = "receive_text"
    /\ queued > 0
    /\ queued' = queued - 1
    /\ \E f \in Frames :
        /\ WellFormed(f)
        /\ f.type \notin {"audio_chunk", "stop_recording"}
    /\ step' = "other"
    /\ UNCHANGED << pc, conn, audio_buffer, user_text, ai_text, full_audio,
                    ENABLE_ELEVENLABS_TTS, exit, utt, handled, log, failed >>

(***************************************************************************)
(* websocket_endpoint, lines 61-106: transcription and the end of a flush. *)
(***************************************************************************)
\* lines 65-89: convert returns; user_text is taken from the result and
\* tested after strip()
SttReturn ==
    /\ pc = "stt_convert"
    /\ \E transcription \in Transcriptions :
        /\ user_text' = UserTextOf(transcription)
        /\ log' = Append(log, Ret("stt", transcription))
        /\ pc' = IF Strip(UserTextOf(transcription)) # <<>>
                 THEN "send_transcription" ELSE "send_no_speech"
    /\ step' = "SttReturn"
    /\ UNCHANGED << conn, audio_buffer, ai_text, full_audio,
                    ENABLE_ELEVENLABS_TTS, exit, utt, handled, failed, queued >>

\* variant of SttRaise: the handler of line 100 reports nothing
SttRaiseSilent ==
    /\ pc = "stt_convert"
    /\ log' = Append(log, Raised("stt"))
    /\ pc' = "send_ready"
    /\ failed' = TRUE
    /\ step' = "SttRaise"
    /\ UNCHANGED << conn, audio_buffer, user_text, ai_text, full_audio,
                    ENABLE_ELEVENLABS_TTS, exit, utt, handled, queued >>

\* lines 65-70 raise: caught at line 100
SttRaise ==
    /\ pc = "stt_convert"
    /\ log' = Append(log, Raised("stt"))
    /\ pc' = "send_error_transcription"
    /\ failed' = TRUE
    /\ step' = "SttRaise"
    /\ UNCHANGED << conn, audio_buffer, user_text, ai_text, full_audio,
                    ENABLE_ELEVENLABS_TTS, exit, utt, handled, queued >>

\* variant of SendTranscription: process_llm_and_tts is called without the
\* send of line 91
SendTranscriptionSkipped ==
    /\ pc = "send_transcription"
    /\ pc' = "send_thinking"
    /\ step' = "SendTranscription"
    /\ UNCHANGED << conn, audio_buffer, user_text, ai_text, full_audio, log,
                    ENABLE_ELEVENLABS_TTS, exit, utt, handled, failed, queued >>

\* line 91, then the call of process_llm_and_tts (line 95)
SendTranscription ==
    /\ pc = "send_transcription"
    /\ Send(Out("transcription", user_text), <<>>,
            "send_thinking", "send_error_transcription")
    /\ step' = "SendTranscription"
    /\ UNCHANGED << conn, audio_buffer, user_text, ai_text, full_audio,
                    ENABLE_ELEVENLABS_TTS, utt, handled, failed, queued >>

\* variant of SendNoSpeech: the loop continues without ending the flush
SendNoSpeechContinue ==
    /\ pc = "send_no_speech"
    /\ Send(Status("No speech detected."), <<>>,
            "receive_text", "send_error_transcription")
    /\ step' = "SendNoSpeech"
    /\ UNCHANGED << conn, audio_buffer, user_text, ai_text, full_audio,
                    ENABLE_ELEVENLABS_TTS, utt, handled, failed, queued >>

\* line 98
SendNoSpeech ==
    /\ pc = "send_no_speech"
    /\ Send(Status("No speech detected."), <<>>,
            "send_ready", "send_error_transcription")
    /\ step' = "SendNoSpeech"
    /\ UNCHANGED << conn, audio_buffer, user_text, ai_text, full_audio,
                    ENABLE_ELEVENLABS_TTS, utt, handled, failed, queued >>

\* lines 100-102: the handler of everything raised inside lines 61-98
SendErrorTranscription ==
    /\ pc = "send_error_transcription"
    /\ Send(Status("Error in transcription."), <<>>, "send_ready", "done")
    /\ step' = "SendErrorTranscription"
    /\ UNCHANGED << conn, audio_buffer, user_text, ai_text, full_audio,
                    ENABLE_ELEVENLABS_TTS, utt, handled, failed, queued >>

\* lines 105-106: the buffer is reset, then "Ready" is sent
SendReady ==
    /\ pc = "send_ready"
    /\ audio_buffer' = ResetBuffer(audio_buffer)
    /\ handled' = <<>>
    /\ Send(Status("Ready"), <<>>, "receive_text", "done")
    /\ step' = "SendReady"
    /\ UNCHANGED << conn, user_text, ai_text, full_audio,
                    ENABLE_ELEVENLABS_TTS, utt, failed, queued >>

(***************************************************************************)
(* process_llm_and_tts, lines 111-192.                                     *)
(***************************************************************************)
\* line 112, then the Groq call of line 120, which blocks.  The send is
\* outside the try of line 116: when it raises, the exception reaches the
\* caller's handler at line 100.
SendThinking ==
    /\ pc = "send_thinking"
    /\ Send(Status("Thinking..."), << Call("llm", user_text) >>,
            "llm_create", "send_error_transcription")
    /\ step' = "SendThinking"
    /\ UNCHANGED << conn, audio_buffer, user_text, ai_text, full_audio,
                    ENABLE_ELEVENLABS_TTS, utt, handled, failed, queued >>

\* lines 120-136: create returns; a content of None makes len(ai_text) of
\* line 136 raise, which the handler of line 188 catches
LlmReturn ==
    /\ pc = "llm_create"
    /\ \E content \in Completions :
        /\ log' = Append(log, Ret("llm", content))
        /\ IF content.isText
           THEN /\ ai_text' = content.text
                /\ pc' = "send_response_text"
                /\ failed' = failed
           ELSE /\ ai_text' = ai_text
                /\ pc' = "send_error_llm"
                /\ failed' = TRUE
    /\ step' = "LlmReturn"
    /\ UNCHANGED << conn, audio_buffer, user_text, full_audio,
                    ENABLE_ELEVENLABS_TTS, exit, utt, handled, queued >>

\* variant of LlmRaise: the exception is not caught and ends the handler
LlmRaiseEscapes ==
    /\ pc = "llm_create"
    /\ log' = Append(log, Raised("llm"))
    /\ pc' = "done"
    /\ exit' = "error"
    /\ failed' = TRUE
    /\ step' = "LlmRaise"
    /\ UNCHANGED << conn, audio_buffer, user_text, ai_text, full_audio,
                    ENABLE_ELEVENLABS_TTS, utt, handled, queued >>

\* variant of LlmRaise: the handler of line 188 calls the gateway again
LlmRaiseRetried ==
    /\ pc = "llm_create"
    /\ log' = (Append(log, Raised("llm")) \o << Call("llm", user_text) >>)
    /\ pc' = "llm_create"
    /\ failed' = TRUE
    /\ step' = "LlmRaise"
    /\ UNCHANGED << conn, audio_buffer, user_text, ai_text, full_audio,
                    ENABLE_ELEVENLABS_TTS, exit, utt, handled, queued >>

\* lines 120-132 raise: caught at line 188
LlmRaise ==
    /\ pc = "llm_create"
    /\ log' = Append(log, Raised("llm"))
    /\ pc' = "send_error_llm"
    /\ failed' = TRUE
    /\ step' = "LlmRaise"
    /\ UNCHANGED << conn, audio_buffer, user_text, ai_text, full_audio,
                    ENABLE_ELEVENLABS_TTS, exit, utt, handled, queued >>

\* line 139, then the branch of line 144
SendResponseText ==
    /\ pc = "send_response_text"
    /\ Send(Out("response_text", ai_text), <<>>,
            IF ENABLE_ELEVENLABS_TTS THEN "send_speaking_elevenlabs"
            ELSE "send_speaking_browser",
            "send_error_llm")
    /\ step' = "SendResponseText"
    /\ UNCHANGED << conn, audio_buffer, user_text, ai_text, full_audio,
                    ENABLE_ELEVENLABS_TTS, utt, handled, failed, queued >>

\* line 145, then the ElevenLabs call of line 152, which blocks
SendSpeakingElevenLabs ==
    /\ pc = "send_speaking_elevenlabs"
    /\ Send(Status("Speaking (ElevenLabs)..."), << Call("tts", ai_text) >>,
            "tts_convert", "send_error_llm")
    /\ step' = "SendSpeakingElevenLabs"
    /\ UNCHANGED << conn, audio_buffer, user_text, ai_text, full_audio,
                    ENABLE_ELEVENLABS_TTS, utt, handled, failed, queued >>

\* lines 152-170: convert returns and its fragments are accumulated; an
\* empty full_audio sends nothing and the function returns
TtsReturn ==
    /\ pc = "tts_convert"
    /\ \E audio_stream \in AudioStreams :
        /\ log' = Append(log, Ret("tts", audio_stream))
        /\ full_audio' = FullAudioOf(audio_stream)
        /\ pc' = IF FullAudioOf(audio_stream) # <<>>
                 THEN "send_audio" ELSE "send_ready"
    /\ step' = "TtsReturn"
    /\ UNCHANGED << conn, audio_buffer, user_text, ai_text,
                    ENABLE_ELEVENLABS_TTS, exit, utt, handled, failed, queued >>

\* variant of TtsRaise: without the try of line 147 the exception reaches the
\* handler of line 188
TtsRaiseToLlmHandler ==
    /\ pc = "tts_convert"
    /\ log' = Append(log, Raised("tts"))
    /\ pc' = "send_error_llm"
    /\ failed' = TRUE
    /\ step' = "TtsRaise"
    /\ UNCHANGED << conn, audio_buffer, user_text, ai_text, full_audio,
                    ENABLE_ELEVENLABS_TTS, exit, utt, handled, queued >>

\* lines 152-164 raise (the call, or the iteration of its stream): caught at
\* line 175
TtsRaise ==
    /\ pc = "tts_convert"
    /\ log' = Append(log, Raised("tts"))
    /\ pc' = "send_error_tts"
    /\ failed' = TRUE
    /\ step' = "TtsRaise"
    /\ UNCHANGED << conn, audio_buffer, user_text, ai_text, full_audio,
                    ENABLE_ELEVENLABS_TTS, exit, utt, handled, queued >>

\* lines 172-173
SendAudio ==
    /\ pc = "send_audio"
    /\ Send(Out("audio", B64Encode(full_audio)), <<>>,
            "send_ready", "send_error_tts")
    /\ step' = "SendAudio"
    /\ UNCHANGED << conn, audio_buffer, user_text, ai_text, full_audio,
                    ENABLE_ELEVENLABS_TTS, utt, handled, failed, queued >>

\* variant of SendErrorTts: the handler of line 175 raises again after it
\* has reported
SendErrorTtsReraises ==
    /\ pc = "send_error_tts"
    /\ Send(Status("Error in TTS."), <<>>, "send_error_llm", "send_error_llm")
    /\ step' = "SendErrorTts"
    /\ UNCHANGED << conn, audio_buffer, user_text, ai_text, full_audio,
                    ENABLE_ELEVENLABS_TTS, utt, handled, failed, queued >>

\* lines 175-177: inside the try of line 116, so a failing send is caught at
\* line 188
SendErrorTts ==
    /\ pc = "send_error_tts"
    /\ Send(Status("Error in TTS."), <<>>, "send_ready", "send_error_llm")
    /\ step' = "SendErrorTts"
    /\ UNCHANGED << conn, audio_buffer, user_text, ai_text, full_audio,
                    ENABLE_ELEVENLABS_TTS, utt, handled, failed, queued >>

\* variant of SendSpeakingBrowser: the status of line 183 is not sent
SendSpeakingBrowserSkipped ==
    /\ pc = "send_speaking_browser"
    /\ pc' = "send_browser_tts"
    /\ step' = "SendSpeakingBrowser"
    /\ UNCHANGED << conn, audio_buffer, user_text, ai_text, full_audio,
                    ENABLE_ELEVENLABS_TTS, exit, utt, handled, failed, log, queued >>

\* line 183
SendSpeakingBrowser ==
    /\ pc = "send_speaking_browser"
    /\ Send(Status("Speaking (Browser)..."), <<>>,
            "send_browser_tts", "send_error_llm")
    /\ step' = "SendSpeakingBrowser"
    /\ UNCHANGED << conn, audio_buffer, user_text, ai_text, full_audio,
                    ENABLE_ELEVENLABS_TTS, utt, handled, failed, queued >>

\* variant of SendBrowserTts: the event carries the transcript
SendBrowserTtsUserText ==
    /\ pc = "send_browser_tts"
    /\ Send(Out("browser_tts", user_text), <<>>, "send_ready", "send_error_llm")
    /\ step' = "SendBrowserTts"
    /\ UNCHANGED << conn, audio_buffer, user_text, ai_text, full_audio,
                    ENABLE_ELEVENLABS_TTS, utt, handled, failed, queued >>

\* line 186
SendBrowserTts ==
    /\ pc = "send_browser_tts"
    /\ Send(Out("browser_tts", ai_text), <<>>, "send_ready", "send_error_llm")
    /\ step' = "SendBrowserTts"
    /\ UNCHANGED << conn, audio_buffer, user_text, ai_text, full_audio,
                    ENABLE_ELEVENLABS_TTS, utt, handled, failed, queued >>

\* lines 188-190: a failing send here leaves process_llm_and_tts and is
\* caught by the caller at line 100
SendErrorLlm ==
    /\ pc = "send_error_llm"
    /\ Send(Status("Error in LLM."), <<>>,
            "send_ready", "send_error_transcription")
    /\ step' = "SendErrorLlm"
    /\ UNCHANGED << conn, audio_buffer, user_text, ai_text, full_audio,
                    ENABLE_ELEVENLABS_TTS, utt, handled, failed, queued >>

(***************************************************************************)
(* The specification.                                                      *)
(***************************************************************************)
Next ==
    \/ Disconnect
    \/ ClientSend
    \/ ReceiveDisconnect
    \/ ReceiveMalformed
    \/ ReceiveAudioChunk
    \/ ReceiveStopRecordingEmpty
    \/ ReceiveStopRecording
    \/ ReceiveOther
    \/ SttReturn
    \/ SttRaise
    \/ SendTranscription
    \/ SendNoSpeech
    \/ SendErrorTranscription
    \/ SendReady
    \/ SendThinking
    \/ LlmReturn
    \/ LlmRaise
    \/ SendResponseText
    \/ SendSpeakingElevenLabs
    \/ TtsReturn
    \/ TtsRaise
    \/ SendAudio
    \/ SendErrorTts
    \/ SendSpeakingBrowser
    \/ SendBrowserTts
    \/ SendErrorLlm

Spec ==
    Init /\ [][Next]_vars

\* the steps of the handler coroutine: everything but the client's moves
HandlerStep ==
    \/ ReceiveDisconnect
    \/ ReceiveMalformed
    \/ ReceiveAudioChunk
    \/ ReceiveStopRecordingEmpty
    \/ ReceiveStopRecording
    \/ ReceiveOther
    \/ SttReturn
    \/ SttRaise
    \/ SendTranscription
    \/ SendNoSpeech
    \/ SendErrorTranscription
    \/ SendReady
    \/ SendThinking
    \/ LlmReturn
    \/ LlmRaise
    \/ SendResponseText
    \/ SendSpeakingElevenLabs
    \/ TtsReturn
    \/ TtsRaise
    \/ SendAudio
    \/ SendErrorTts
    \/ SendSpeakingBrowser
    \/ SendBrowserTts
    \/ SendErrorLlm

\* the event loop resumes the handler whenever what it awaits is there, and
\* every gateway call returns or raises; the client is under no obligation
LiveSpec ==
    Spec /\ WF_vars(HandlerStep)

(***************************************************************************)
(* Vocabulary of the properties.                                           *)
(***************************************************************************)
RECURSIVE Flatten(_)
\* the concatenation, in order, of a sequence of byte strings
Flatten(chunks) ==
    IF chunks = <<>> THEN <<>>
    ELSE Head(chunks) \o Flatten(Tail(chunks))

IsCall(e, gw) ==
    e.k = "call" /\ e.name = gw

IsRet(e, gw) ==
    e.k = "ret" /\ e.name = gw

IsRaise(e, gw) ==
    e.k = "raise" /\ e.name = gw

IsOut(e, type) ==
    e.k = "out" /\ e.name = type

IsStatus(e, text) ==
    e.k = "out" /\ e.name = "status" /\ e.val = text

\* positions of the log
Idx ==
    1 .. Len(log)

Calls(gw) ==
    { i \in Idx : IsCall(log[i], gw) }

Outs(type) ==
    { i \in Idx : IsOut(log[i], type) }

Statuses(text) ==
    { i \in Idx : IsStatus(log[i], text) }

\* the flush the log describes has sent its "Ready"
Finished ==
    Statuses("Ready") # {}

\* the pipeline of the flush is over: "Ready" is about to be sent or was sent
RunOver ==
    pc = "send_ready" \/ Finished

\* a text that is empty once whitespace is trimmed from its ends
AllWhitespace(t) ==
    \A i \in 1 .. Len(t) : t[i] \in Whitespace

\* the lifecycle state of the session, which the code keeps implicitly
SessionState ==
    IF pc = "done" THEN "Closed"
    ELSE IF pc # "receive_text" THEN "Processing"
    ELSE IF audio_buffer = <<>> THEN "Idle"
    ELSE "Accumulating"

(***************************************************************************)
(* C1.  The bytes passed to the Transcription Gateway are exactly the      *)
(* concatenation, in arrival order, of the payloads of the audio_chunk     *)
(* frames handled since the previous flush (or since the connection        *)
(* opened); a flush makes one such call.                                   *)
(***************************************************************************)
C1_UtteranceIsConcatenation ==
    /\ Cardinality(Calls("stt")) <= 1
    /\ pc = "stt_convert" =>
        /\ log # <<>>
        /\ IsCall(log[Len(log)], "stt")
        /\ log[Len(log)].val = Flatten(handled)

\* a second flush is transcribing two different non-empty chunks
C1_Witness ==
    /\ pc = "stt_convert"
    /\ utt >= 2
    /\ Len(handled) = 2
    /\ handled[1] # <<>>
    /\ handled[2] # <<>>
    /\ handled[1] # handled[2]

(***************************************************************************)
(* C2.  After any completed pipeline run the buffer is empty and the       *)
(* session is Idle (or closed), and nothing follows the "Ready" of the     *)
(* run until new audio arrives: a stop_recording with no new audio_chunk   *)
(* makes no Transcription Gateway call.                                    *)
(***************************************************************************)
C2_IdleAfterRun ==
    Finished =>
        /\ audio_buffer = <<>>
        /\ SessionState \in {"Idle", "Closed"}
        /\ IsStatus(log[Len(log)], "Ready")
        /\ Cardinality(Calls("stt")) = 1

\* a stop_recording was handled after a run in which a gateway call failed
C2_Witness ==
    /\ Finished
    /\ step = "stop_recording"
    /\ pc = "receive_text"
    /\ \E i \in Idx : log[i].k = "raise"

(***************************************************************************)
(* C3.  A stop_recording handled while the buffer is empty is a no-op: no  *)
(* gateway call, no outbound message, buffer and session state unchanged.  *)
(***************************************************************************)
C3_EmptyStopIsNoOp ==
    [][ (pc = "receive_text" /\ step' = "stop_recording" /\ audio_buffer = <<>>)
        => /\ log' = log
           /\ audio_buffer' = audio_buffer
           /\ pc' = pc
           /\ exit' = exit
           /\ utt' = utt ]_vars

\* a stop_recording has been handled on an empty buffer before any audio
C3_Witness ==
    /\ step = "stop_recording"
    /\ pc = "receive_text"
    /\ audio_buffer = <<>>
    /\ log = <<>>
    /\ utt = 0

(***************************************************************************)
(* C4.  When the Transcription Gateway call raises, exactly one status     *)
(* "Error in transcription." is sent and no transcription or response_text *)
(* event; the Transcription Gateway was called once and the Completion and *)
(* Synthesis Gateways are not called.                                      *)
(***************************************************************************)
C4_TranscriptionFailure ==
    (\E i \in Idx : IsRaise(log[i], "stt")) =>
        /\ Outs("transcription") = {}
        /\ Outs("response_text") = {}
        /\ Cardinality(Calls("stt")) = 1
        /\ Calls("llm") = {}
        /\ Calls("tts") = {}
        /\ Cardinality(Statuses("Error in transcription.")) <= 1
        /\ RunOver => Cardinality(Statuses("Error in transcription.")) = 1

\* a run whose transcription call raised has finished
C4_Witness ==
    /\ Finished
    /\ pc = "receive_text"
    /\ \E i \in Idx : IsRaise(log[i], "stt")

(***************************************************************************)
(* C5.  When the Transcription Gateway returns a text that is empty after  *)
(* trimming whitespace, no transcription event is sent, the Completion and *)
(* Synthesis Gateways are not called, and exactly one status               *)
(* "No speech detected." is sent.                                          *)
(***************************************************************************)
C5_EmptyTranscript ==
    (\E i \in Idx : IsRet(log[i], "stt") /\ AllWhitespace(UserTextOf(log[i].val))) =>
        /\ Outs("transcription") = {}
        /\ Calls("llm") = {}
        /\ Calls("tts") = {}
        /\ Cardinality(Statuses("No speech detected.")) <= 1
        /\ RunOver => Cardinality(Statuses("No speech detected.")) = 1

\* a run whose transcript was whitespace only has finished
C5_Witness ==
    /\ Finished
    /\ \E i \in Idx : /\ IsRet(log[i], "stt")
                       /\ UserTextOf(log[i].val) # <<>>
                       /\ AllWhitespace(UserTextOf(log[i].val))

(***************************************************************************)
(* C6.  A failure of the transcription, completion or synthesis stage      *)
(* never ends the handler: it ends only on a disconnect or a malformed     *)
(* frame.  After a failure the session is as a fresh one: the buffer is    *)
(* empty once the run is over, and the next flush transcribes exactly the  *)
(* audio that arrived after it.                                            *)
(***************************************************************************)
C6_FailuresDoNotEndSession ==
    /\ pc = "done" => (conn = "closed" \/ step = "malformed")
    /\ (failed /\ Finished) => audio_buffer = <<>>
    /\ (failed /\ pc = "stt_convert") =>
        /\ Len(log) = 1
        /\ IsCall(log[1], "stt")
        /\ log[1].val = Flatten(handled)

\* after a failed stage in an earlier run, a new utterance is transcribed
C6_Witness ==
    /\ failed
    /\ utt >= 2
    /\ pc = "stt_convert"
    /\ conn = "open"

(***************************************************************************)
(* C7.  With synthesis disabled, every utterance whose completion returned *)
(* a reply sends exactly one browser_tts event carrying the reply and no   *)
(* audio event, and the Synthesis Gateway is never called.                 *)
(***************************************************************************)
C7_BrowserTtsWhenDisabled ==
    ~ENABLE_ELEVENLABS_TTS =>
        /\ Calls("tts") = {}
        /\ Outs("audio") = {}
        /\ \A i \in Idx : (IsRet(log[i], "llm") /\ log[i].val.isText) =>
            /\ Cardinality(Outs("browser_tts")) <= 1
            /\ \A j \in Outs("browser_tts") : log[j].val = log[i].val.text
            /\ RunOver => Cardinality(Outs("browser_tts")) = 1

\* a run with synthesis disabled has sent its browser_tts event and finished
C7_Witness ==
    /\ ~ENABLE_ELEVENLABS_TTS
    /\ Finished
    /\ Outs("browser_tts") # {}

(***************************************************************************)
(* C8.  As stated: with synthesis enabled and the Synthesis Gateway call   *)
(* returning, exactly one audio event is sent, carrying the base64         *)
(* encoding of the concatenation of the streamed fragments, for every      *)
(* fragment sequence (also all-empty or without fragments), and no         *)
(* browser_tts event.                                                      *)
(***************************************************************************)
C8_Original ==
    (ENABLE_ELEVENLABS_TTS /\ RunOver) =>
        \A i \in Idx : IsRet(log[i], "tts") =>
            /\ Cardinality(Outs("audio")) = 1
            /\ \A j \in Outs("audio") :
                   log[j].val = B64Encode(Flatten(log[i].val.frags))
            /\ Outs("browser_tts") = {}

(***************************************************************************)
(* C8, amended.  With synthesis enabled no browser_tts event is sent, and  *)
(* when the Synthesis Gateway call returns: if the concatenation of the    *)
(* fragments is non-empty, exactly one audio event is sent and its data    *)
(* is the base64 encoding of that concatenation (it decodes to it); if     *)
(* the concatenation is empty, no audio event is sent.                     *)
(***************************************************************************)
C8_AudioWhenNonEmpty ==
    ENABLE_ELEVENLABS_TTS =>
        /\ Outs("browser_tts") = {}
        /\ Outs("audio") # {} => \E i \in Idx : IsRet(log[i], "tts")
        /\ \A i \in Idx : IsRet(log[i], "tts") =>
            LET whole == Flatten(log[i].val.frags)
            IN /\ Cardinality(Outs("audio")) <= 1
               /\ \A j \in Outs("audio") :
                      /\ log[j].val = B64Encode(whole)
                      /\ B64Decode(log[j].val) = [ok |-> TRUE, bytes |-> whole]
               /\ RunOver =>
                      Cardinality(Outs("audio")) = IF whole # <<>> THEN 1 ELSE 0

\* a run has sent the audio of a stream of several fragments and finished
C8_Witness ==
    /\ ENABLE_ELEVENLABS_TTS
    /\ Finished
    /\ Outs("audio") # {}
    /\ \E i \in Idx : /\ IsRet(log[i], "tts")
                       /\ log[i].val.iter
                       /\ Len(log[i].val.frags) >= 3

(***************************************************************************)
(* C9.  A flush sends exactly one status "Ready", as its last message,     *)
(* with the buffer already reset; "Ready" is sent only by a flush, that    *)
(* is after a stop_recording that found a non-empty buffer.                *)
(***************************************************************************)
C9_ReadyEndsFlush ==
    /\ Cardinality(Statuses("Ready")) <= 1
    /\ Finished =>
        /\ IsStatus(log[Len(log)], "Ready")
        /\ IsCall(log[1], "stt")
        /\ log[1].val # <<>>
        /\ audio_buffer = <<>>
    /\ (pc = "receive_text" /\ log # <<>>) => Finished

\* a successful run has ended with "Ready" after its other messages
C9_Witness ==
    /\ Finished
    /\ pc = "receive_text"
    /\ Outs("transcription") # {}
    /\ Outs("response_text") # {}
    /\ Len(log) >= 8

(***************************************************************************)
(* C10.  As stated: every step of the pipeline, the transcription call     *)
(* included, is preceded by a status message sent after the flush was      *)
(* triggered.                                                              *)
(***************************************************************************)
C10_Original ==
    \A i \in Idx :
        (log[i].k = "call" \/ IsOut(log[i], "browser_tts")) =>
            \E j \in 1 .. (i - 1) : IsOut(log[j], "status")

(***************************************************************************)
(* C10, amended.  The Completion Gateway call and the synthesis step       *)
(* (the Synthesis Gateway call, or the browser_tts event) are each         *)
(* directly preceded by the status message of that step; no message is     *)
(* sent between the stop_recording and the Transcription Gateway call.     *)
(***************************************************************************)
C10_StatusBeforeCompletionAndSynthesis ==
    \A i \in Idx :
        /\ IsCall(log[i], "stt") => i = 1
        /\ IsCall(log[i], "llm") =>
               (i > 1 /\ IsStatus(log[i - 1], "Thinking..."))
        /\ IsCall(log[i], "tts") =>
               (i > 1 /\ IsStatus(log[i - 1], "Speaking (ElevenLabs)..."))
        /\ IsOut(log[i], "browser_tts") =>
               (i > 1 /\ IsStatus(log[i - 1], "Speaking (Browser)..."))

\* a run has called the Completion Gateway and sent browser_tts
C10_Witness ==
    /\ Calls("llm") # {}
    /\ Outs("browser_tts") # {}
    /\ Finished

(***************************************************************************)
(* C11.  A frame whose type is neither audio_chunk nor stop_recording is   *)
(* ignored: the buffer, the position of the handler, the calls made and    *)
(* the messages sent are unchanged, the handler does not end, and it goes  *)
(* on at receive_text.                                                     *)
(***************************************************************************)
C11_UnknownTypeIgnored ==
    [][ (pc = "receive_text" /\ step' = "other")
        => /\ log' = log
           /\ audio_buffer' = audio_buffer
           /\ handled' = handled
           /\ pc' = "receive_text"
           /\ exit' = exit
           /\ utt' = utt
           /\ failed' = failed ]_vars

\* an unknown frame was handled while audio was buffered
C11_Witness ==
    /\ step = "other"
    /\ pc = "receive_text"
    /\ audio_buffer # <<>>

\* the Completion Gateway call of the run failed: it raised, or its result
\* holds no text (line 136 raises)
LlmFailed ==
    \E i \in Idx : \/ IsRaise(log[i], "llm")
                    \/ (IsRet(log[i], "llm") /\ ~log[i].val.isText)

(***************************************************************************)
(* C12.  When the Completion Gateway call fails, exactly one status        *)
(* "Error in LLM." is sent; no response_text, browser_tts or audio event   *)
(* is sent; the Synthesis Gateway is not called and the Completion Gateway *)
(* is called once; the transcription event was sent before and the         *)
(* terminal "Ready" follows.                                               *)
(***************************************************************************)
C12_CompletionFailure ==
    LlmFailed =>
        /\ Outs("response_text") = {}
        /\ Outs("browser_tts") = {}
        /\ Outs("audio") = {}
        /\ Calls("tts") = {}
        /\ Cardinality(Calls("llm")) = 1
        /\ Cardinality(Outs("transcription")) = 1
        /\ Cardinality(Statuses("Error in LLM.")) <= 1
        /\ \A i \in Statuses("Error in LLM.") :
               \E j \in Outs("transcription") : j < i
        /\ RunOver => Cardinality(Statuses("Error in LLM.")) = 1
        /\ Finished => IsStatus(log[Len(log) - 1], "Error in LLM.")
        /\ (pc = "receive_text") => Finished

\* a run whose Completion Gateway call raised has sent "Ready"
C12_Witness ==
    /\ Finished
    /\ pc = "receive_text"
    /\ \E i \in Idx : IsRaise(log[i], "llm")

(***************************************************************************)
(* C13.  Whenever the Completion Gateway returns a reply, exactly one      *)
(* response_text event carrying it is sent, whatever becomes of the        *)
(* synthesis; when the Synthesis Gateway call fails, the response_text is  *)
(* followed by exactly one status "Error in TTS.", and neither an audio    *)
(* event nor a status "Error in LLM." is sent.                             *)
(***************************************************************************)
C13_ReplyAlwaysForwarded ==
    /\ \A i \in Idx : (IsRet(log[i], "llm") /\ log[i].val.isText) =>
        /\ Cardinality(Outs("response_text")) <= 1
        /\ \A j \in Outs("response_text") :
               j > i /\ log[j].val = log[i].val.text
        /\ (RunOver \/ Calls("tts") # {} \/ Outs("browser_tts") # {})
               => Cardinality(Outs("response_text")) = 1
    /\ (\E i \in Idx : IsRaise(log[i], "tts")) =>
        /\ Cardinality(Outs("response_text")) = 1
        /\ Outs("audio") = {}
        /\ Statuses("Error in LLM.") = {}
        /\ Cardinality(Statuses("Error in TTS.")) <= 1
        /\ \A i \in Statuses("Error in TTS.") :
               \E j \in Outs("response_text") : j < i
        /\ RunOver => Cardinality(Statuses("Error in TTS.")) = 1

\* a run whose Synthesis Gateway call raised has finished
C13_Witness ==
    /\ Finished
    /\ Outs("response_text") # {}
    /\ \E i \in Idx : IsRaise(log[i], "tts")

(***************************************************************************)
(* C14.  The outbound events of an utterance follow the pipeline: a        *)
(* transcription event comes directly after the Transcription Gateway      *)
(* returned a text that is not blank, carries that text and precedes the   *)
(* Completion Gateway call; a response_text event comes after a            *)
(* transcription event and before every browser_tts and audio event; these *)
(* come only after a response_text; all of them lie inside a run, after    *)
(* its Transcription Gateway call and before its "Ready".                  *)
(***************************************************************************)
C14_PipelineOrder ==
    /\ log # <<>> => IsCall(log[1], "stt")
    /\ \A i \in Outs("transcription") :
        /\ i > 1
        /\ IsRet(log[i - 1], "stt")
        /\ ~AllWhitespace(UserTextOf(log[i - 1].val))
        /\ log[i].val = UserTextOf(log[i - 1].val)
        /\ \A j \in Calls("llm") : i < j
    /\ \A i \in Outs("response_text") :
        /\ \E j \in Outs("transcription") : j < i
        /\ \A j \in Outs("browser_tts") \cup Outs("audio") : i < j
    /\ \A i \in Outs("browser_tts") \cup Outs("audio") :
        \E j \in Outs("response_text") : j < i
    /\ \A i \in Outs("transcription") \cup Outs("response_text")
               \cup Outs("browser_tts") \cup Outs("audio") :
        \A j \in Statuses("Ready") : i < j
    /\ Cardinality(Outs("transcription")) <= 1

\* a run has sent transcription, response_text and audio, and finished
C14_Witness ==
    /\ Finished
    /\ Outs("transcription") # {}
    /\ Outs("response_text") # {}
    /\ Outs("audio") # {}

\* the error statuses of the log
ErrorStatuses ==
    Statuses("Error in transcription.") \cup Statuses("Error in LLM.")
        \cup Statuses("Error in TTS.")

(***************************************************************************)
(* C15.  Each error status belongs to its stage: "Error in                 *)
(* transcription." is sent only when the Transcription Gateway call        *)
(* failed, and never after a transcription event; "Error in LLM." only     *)
(* when the Completion Gateway call failed, and never after a              *)
(* response_text event; "Error in TTS." only when the Synthesis Gateway    *)
(* call failed.  At most one error status is sent per utterance, also      *)
(* when a send fails inside a later stage: the handlers of the enclosing   *)
(* stages then run, but their sends fail as well.                          *)
(***************************************************************************)
C15_ErrorsScopedToStage ==
    /\ Statuses("Error in transcription.") # {} =>
        /\ \E i \in Idx : IsRaise(log[i], "stt")
        /\ Outs("transcription") = {}
    /\ Statuses("Error in LLM.") # {} =>
        /\ LlmFailed
        /\ Outs("response_text") = {}
    /\ Statuses("Error in TTS.") # {} =>
        \E i \in Idx : IsRaise(log[i], "tts")
    /\ Cardinality(ErrorStatuses) <= 1

\* a send failed after the transcription event was sent, and the handler of
\* line 100 has run and ended the handler
C15_Witness ==
    /\ pc = "done"
    /\ step = "SendErrorTranscription"
    /\ Outs("transcription") # {}
    /\ Outs("response_text") # {}
    /\ ErrorStatuses = {}

\* a flush is under way: the handler is between the stop_recording that
\* started it and the send of "Ready"
InFlight == pc \notin {"receive_text", "done"}

(***************************************************************************)
(* C16.  At most one utterance is in flight.  While a flush is under way   *)
(* the log holds one Transcription Gateway call and the buffer still holds *)
(* the bytes given to it; a step taken then handles no inbound frame (a    *)
(* frame that has arrived keeps waiting), starts no pipeline run and       *)
(* leaves the buffer alone, except the step that ends the flush, which     *)
(* empties it.  The first audio_chunk handled afterwards finds the buffer  *)
(* empty: the buffer is then that chunk's payload alone.                   *)
(***************************************************************************)
C16_OneUtteranceInFlight ==
    /\ [](InFlight =>
            /\ Cardinality(Calls("stt")) = 1
            /\ IsCall(log[1], "stt")
            /\ log[1].val = audio_buffer)
    /\ [](Len(handled) = 1 => audio_buffer = handled[1])
    /\ [][ InFlight =>
            /\ queued' >= queued
            /\ utt' = utt
            /\ handled' = IF pc = "send_ready" /\ pc' # pc
                          THEN <<>> ELSE handled
            /\ audio_buffer' = IF pc = "send_ready" /\ pc' # pc
                               THEN <<>> ELSE audio_buffer
          ]_vars

\* a frame arrived while the completion of the second utterance is awaited
C16_Witness ==
    /\ pc = "llm_create"
    /\ queued > 0
    /\ utt >= 2
    /\ audio_buffer # <<>>

(***************************************************************************)
(* C17 as stated.  The state just after an audio_chunk was handled is      *)
(* Accumulating, with a non-empty buffer, whatever the chunk.              *)
(***************************************************************************)
C17_Original ==
    (pc = "receive_text" /\ step = "audio_chunk") =>
        /\ audio_buffer # <<>>
        /\ SessionState = "Accumulating"

(***************************************************************************)
(* C17, amended.  Outside Processing the session is Idle exactly when the  *)
(* buffer is empty and Accumulating exactly when it is not.  Handling an   *)
(* audio_chunk appends its payload: a chunk with a non-empty payload       *)
(* leaves the session Accumulating with a non-empty buffer, a chunk with   *)
(* an empty payload leaves buffer and state as they were.  A               *)
(* stop_recording handled in Accumulating triggers a Transcription Gateway *)
(* call with the buffer, one handled in Idle triggers none.                *)
(***************************************************************************)
C17_StateMatchesBuffer ==
    /\ [](pc = "receive_text" =>
            /\ SessionState = "Idle" <=> Len(audio_buffer) = 0
            /\ SessionState = "Accumulating" <=> Len(audio_buffer) > 0)
    /\ [][ (pc = "receive_text" /\ queued' < queued /\ step' = "audio_chunk") =>
            \E p \in Payloads :
                /\ handled' = Append(handled, p)
                /\ audio_buffer' = audio_buffer \o p
                /\ pc' = "receive_text"
                /\ IF p = <<>>
                   THEN audio_buffer' = audio_buffer
                   ELSE audio_buffer' # <<>>
          ]_vars
    /\ [][ (pc = "receive_text" /\ queued' < queued
                /\ step' = "stop_recording") =>
            IF audio_buffer # <<>>
            THEN /\ pc' = "stt_convert"
                 /\ log' = Append(log, [k |-> "call", utt |-> utt',
                                        name |-> "stt", val |-> audio_buffer])
            ELSE pc' = "receive_text" /\ log' = log
          ]_vars

\* an audio_chunk with an empty payload has been handled in Idle
C17_Witness ==
    /\ pc = "receive_text"
    /\ step = "audio_chunk"
    /\ handled = << <<>> >>
    /\ audio_buffer = <<>>

\* "Ready" was the handler's last step and ended a flush
AtReady ==
    /\ pc = "receive_text"
    /\ step = "SendReady"
    /\ audio_buffer = <<>>
    /\ log # <<>>
    /\ IsStatus(log[Len(log)], "Ready")

\* the handler's last step handled an inbound frame
FrameHandled ==
    /\ pc \in {"receive_text", "done"}
    /\ step \in {"audio_chunk", "stop_recording", "other", "malformed"}

(***************************************************************************)
(* C18.  Liveness, given that the handler is scheduled and every gateway   *)
(* call returns or raises.  The handler leaves a flush for the receive     *)
(* loop only by sending "Ready", on an empty buffer.  Unless the           *)
(* connection closes, a flush under way (from the call of the              *)
(* Transcription Gateway on) leads to that: to the handler waiting at      *)
(* receive_text after "Ready" if no frame has arrived, and on to the next  *)
(* inbound frame being handled if one has.  The flush is not told to       *)
(* succeed: every failure path is a path of the model.                     *)
(***************************************************************************)
C18_FlushLeadsToReady ==
    /\ [][ (InFlight /\ pc' = "receive_text") => AtReady' ]_vars
    /\ (InFlight \/ (AtReady /\ queued > 0)) ~>
          \/ conn = "closed"
          \/ AtReady /\ queued = 0
          \/ FrameHandled

\* a flush in which a gateway failed has ended with "Ready" on an open
\* connection, and a frame is waiting
C18_Witness ==
    /\ conn = "open"
    /\ AtReady
    /\ failed
    /\ queued > 0

\* the entries a step adds to the log
Added ==
    { log'[i] : i \in (Len(log) + 1) .. Len(log') }

(***************************************************************************)
(* C19 as stated.  Once the connection has terminated, no gateway is       *)
(* called, the Transcription Gateway least of all, and no error status is  *)
(* produced.                                                               *)
(***************************************************************************)
C19_Original ==
    [][ conn = "closed" =>
          \A e \in Added : e.k # "call" /\ e.k # "out" ]_vars

(***************************************************************************)
(* C19, amended.  Frames the client sent before the connection terminated  *)
(* are still handled: a stop_recording among them passes the buffered      *)
(* audio to the Transcription Gateway.  Apart from that call, once the     *)
(* connection has terminated no gateway is called and nothing is sent, an  *)
(* error status included; once no frame is left the handler ends at        *)
(* receive_text without touching log or buffer, so audio that no such      *)
(* frame flushed is never transcribed; and once ended it takes no step.    *)
(***************************************************************************)
C19_AfterDisconnect ==
    [][ /\ conn = "closed" =>
            /\ \A e \in Added :
                /\ e.k # "out"
                /\ e.k = "call" =>
                    /\ e.name = "stt"
                    /\ pc = "receive_text"
                    /\ step' = "stop_recording"
                    /\ queued' = queued - 1
            /\ (pc = "receive_text" /\ queued = 0) =>
                /\ pc' = "done"
                /\ exit' = "disconnect"
                /\ log' = log
                /\ audio_buffer' = audio_buffer
            /\ conn' = "closed"
        /\ pc = "done" => FALSE
      ]_vars

\* the handler has seen the disconnect while audio was buffered and a flush
\* had been made earlier in the session
C19_Witness ==
    /\ pc = "done"
    /\ step = "disconnect"
    /\ exit = "disconnect"
    /\ audio_buffer # <<>>
    /\ utt >= 1

(***************************************************************************)
(* C20.  Handling a malformed frame (no JSON, no type field, or an         *)
(* audio_chunk whose data is missing or is not base64) ends the handler    *)
(* with an exception that is no disconnect: the step sends nothing, calls  *)
(* no gateway and leaves the buffer as it was, and the handler takes no    *)
(* step afterwards, so no later frame is handled.                          *)
(***************************************************************************)
C20_MalformedEndsHandler ==
    /\ [][ (pc = "receive_text" /\ step' = "malformed") =>
            /\ pc' = "done"
            /\ exit' = "error"
            /\ log' = log
            /\ audio_buffer' = audio_buffer
            /\ handled' = handled
            /\ utt' = utt
          ]_vars
    /\ [](step = "malformed" => pc = "done" /\ exit = "error")
    /\ [][ pc = "done" => pc' = "done" /\ queued' = queued /\ log' = log ]_vars

\* a malformed frame was handled while audio of a later utterance was
\* buffered
C20_Witness ==
    /\ step = "malformed"
    /\ pc = "done"
    /\ audio_buffer # <<>>
    /\ conn = "open"
    /\ utt >= 1

====
